---- MODULE Spec2Model ----
(***************************************************************************)
(* Model of src/vectordb.py: the VectorDB wrapper (construction,           *)
(* chunk_text, add_documents, search) together with the two collaborators  *)
(* it drives, the Embedder (SentenceTransformer.encode) and the Store (the *)
(* ChromaDB collection: add, query).                                       *)
(*                                                                         *)
(* Python values.  A str used as text is a run of one character,           *)
(* [kind |-> "str", ch, n] standing for ch * n ("A" * 1200 in the spec's   *)
(* example); None is [kind |-> "none"].  A str used as an id is the        *)
(* sequence of its pieces (decimal digits and the literal separators).     *)
(* A dict is a function from its keys to its values.                       *)
(***************************************************************************)
EXTENDS Integers, Sequences, FiniteSets, TLC

\* ------------------------------------------------------------------ bounds
MaxTotalDocs == 2   \* documents handed to add_documents over one behaviour
MaxInstances == 2   \* VectorDB constructions over one behaviour
MaxTicks == 1       \* seconds the wall clock advances over one behaviour
StartTime == 9      \* int(time.time()) at the start of the behaviour

\* default of chunk_text's chunk_size parameter
DefaultChunkSize == 500

\* ------------------------------------------------------------ Python values
EmptyDict == [k \in {} |-> 0]

None == [kind |-> "none", ch |-> "", n |-> 0]
Text(c, len) == [kind |-> "str", ch |-> c, n |-> len]

NoMetadata == [kind |-> "none", map |-> EmptyDict]
StrMetadata == [kind |-> "str", map |-> EmptyDict]
Dict(m) == [kind |-> "dict", map |-> m]

\* no search has returned
NoResult == [ids |-> << >>, documents |-> << >>, metadatas |-> << >>,
             distances |-> << >>]

\* bool(value) for None and str: None and "" are falsy
TruthyNotNone(v) == v.kind = "str"

Truthy(v) == v.kind = "str" /\ v.n > 0

\* len(chunk)
StrLen(v) == v.n

\* str(n) for n >= 0: the decimal digits, most significant first
Digit(d) == <<"0", "1", "2", "3", "4", "5", "6", "7", "8", "9">>[d + 1]

RECURSIVE IntToStr(_)
IntToStr(n) ==
    IF n < 10 THEN <<Digit(n)>> ELSE IntToStr(n \div 10) \o <<Digit(n % 10)>>

\* dict | dict: a new dict; the right operand wins on a common key
MergeLeftWins(base, over) ==
    [k \in DOMAIN base \cup DOMAIN over |->
        IF k \in DOMAIN base THEN base[k] ELSE over[k]]

DictUnion(base, over) ==
    [k \in DOMAIN base \cup DOMAIN over |->
        IF k \in DOMAIN over THEN over[k] ELSE base[k]]

\* ------------------------------------------------------------------ inputs
Doc(c, m) == [content |-> c, metadata |-> m]

\* the documents a caller passes: .get('content') and .get('metadata')
Docs ==
    { Doc(None, NoMetadata),
      Doc(Text("A", 0), StrMetadata),
      Doc(Text("A", 3), Dict("name" :> "a")),
      Doc(Text("A", 600),
          Dict(("name" :> "b") @@ ("id" :> <<"caller">>) @@ ("chunk_size" :> 0))),
      Doc(Text("A", 3), NoMetadata),
      Doc(Text(" ", 2), Dict(EmptyDict)) }

BatchesOf(len) == [1..len -> Docs]

Queries == { Text("A", 4) }
NResults == { 0, 2, 5 }

\* ------------------------------------------------------------------- state
VARIABLES
    store,                 \* rows of the collection persisted under VECTOR_DB_DIR
    instance,              \* number of VectorDB constructions so far (0: none yet)
    now,                   \* int(time.time())
    pc,                    \* "new" | "idle" | "adding"
    call,                  \* the call running or last finished
    documents,             \* add_documents: the documents argument
    processing_timestamp,  \* add_documents: local of that name
    doc_index,             \* add_documents: loop variable (0-based)
    raised,                \* the exception the last call propagated, or "none"
    result,                \* the value search returned
    log,                   \* collaborator calls made by the current/last call
    input,                 \* history: documents as passed by the caller
    startedAt,             \* history: the clock when add_documents was entered
    store0,                \* history: store when the current/last call was entered
    written,               \* history: chunks written on this instance, per call
    calls,                 \* history: add_documents calls so far
    docsUsed               \* history: documents passed so far

vars == <<store, instance, now, pc, call, documents, processing_timestamp,
          doc_index, raised, result, log, input, startedAt, store0, written,
          calls, docsUsed>>

CurDoc == documents[doc_index + 1]

\* ------------------------------------------------------------ collaborators
\* one collaborator call, as the log records it
Event(op, doc, texts, ids, embeddings, metadatas, n, ok) ==
    [op |-> op, doc |-> doc, texts |-> texts, ids |-> ids,
     embeddings |-> embeddings, metadatas |-> metadatas, n |-> n, ok |-> ok]

\* Embedder: one fixed-dimension vector per text
Embed(text) == <<text.n % 11, text.n % 3>>

\* Embedder.encode(texts): one vector per input text, same order
Encode(texts) == [p \in 1..Len(texts) |-> Embed(texts[p])]

Distance(u, v) ==
    (u[1] - v[1]) * (u[1] - v[1]) + (u[2] - v[2]) * (u[2] - v[2])

StoreIds(rows) == { rows[p].id : p \in 1..Len(rows) }

\* Store.add(embeddings, ids, documents, metadatas): appends one row per
\* position; a row whose id the collection already holds is not added
StoreAdd(rows, inst, ids, embeddings, texts, metadatas) ==
    LET new == [p \in 1..Len(ids) |->
                   [id |-> ids[p], embedding |-> embeddings[p],
                    document |-> texts[p], metadata |-> metadatas[p],
                    inst |-> inst]]
    IN rows \o SelectSeq(new, LAMBDA r : r.id \notin StoreIds(rows))

\* rows[i] comes before rows[j] in the answer to a query for vector q
Nearer(rows, q, i, j) ==
    \/ Distance(rows[i].embedding, q) < Distance(rows[j].embedding, q)
    \/ /\ Distance(rows[i].embedding, q) = Distance(rows[j].embedding, q)
       /\ i < j

\* the positions of rows, nearest to q first
NearestFirst(rows, q) ==
    [p \in 1..Len(rows) |->
        CHOOSE i \in 1..Len(rows) :
            Cardinality({ j \in 1..Len(rows) : Nearer(rows, q, j, i) }) = p - 1]

\* Store.query(query_embeddings=[q], n_results=n, include=[...]) for n > 0:
\* a batch-shaped answer holding one list per field for the one query
StoreQuery(rows, q, n) ==
    LET order == NearestFirst(rows, q)
        k == IF n < Len(rows) THEN n ELSE Len(rows)
        hit(p) == rows[order[p]]
    IN [ids |-> << [p \in 1..k |-> hit(p).id] >>,
        documents |-> << [p \in 1..k |-> hit(p).document] >>,
        metadatas |-> << [p \in 1..k |-> hit(p).metadata] >>,
        distances |-> << [p \in 1..k |-> Distance(hit(p).embedding, q)] >>]

\* --------------------------------------------------------------- __init__
\* shutil.rmtree(db_dir) followed by os.makedirs(db_dir)
RemoveTreeSkipped(dir) == dir

RemoveTree(dir) == << >>

\* client.get_or_create_collection(name): what the directory holds
GetOrCreateCollection(dir) == dir

\* ------------------------------------------------------------- chunk_text
\* RecursiveCharacterTextSplitter(chunk_size, chunk_overlap).split_text on a
\* run of n copies of one character, from position start on.  A run of a
\* non-separator character is cut every chunk_size characters, each chunk
\* starting chunk_overlap characters before the end of the previous one; a
\* run of whitespace holds nothing but separators and yields no chunk.
RECURSIVE SplitRun(_, _, _, _, _)
SplitRun(ch, n, chunk_size, chunk_overlap, start) ==
    IF n - start <= chunk_size
    THEN << Text(ch, n - start) >>
    ELSE << Text(ch, chunk_size) >>
         \o SplitRun(ch, n, chunk_size, chunk_overlap,
                     start + chunk_size - chunk_overlap)

split_text(text, chunk_size, chunk_overlap) ==
    IF text.ch = " " THEN << >>
    ELSE SplitRun(text.ch, text.n, chunk_size, chunk_overlap, 0)

chunk_text(text, chunk_size) ==
    IF Truthy(text)
    THEN split_text(text, chunk_size, chunk_size \div 10)
    ELSE << >>

\* ---------------------------------------------------------- add_documents
\* f"{processing_timestamp}_doc_{doc_index}_chunk_{index}"
ChunkIdNoChunk(ts, doc, index) ==
    IntToStr(ts) \o <<"_doc_">> \o IntToStr(doc) \o <<"_chunk_">>

ChunkIdSwapped(ts, doc, index) ==
    IntToStr(ts) \o <<"_doc_">> \o IntToStr(index) \o <<"_chunk_">> \o IntToStr(doc)

ChunkIdNoTimestamp(ts, doc, index) ==
    <<"doc_">> \o IntToStr(doc) \o <<"_chunk_">> \o IntToStr(index)

ChunkId(ts, doc, index) ==
    IntToStr(ts) \o <<"_doc_">> \o IntToStr(doc) \o <<"_chunk_">> \o IntToStr(index)

\* metadata | {'id': id, 'chunk_size': len(chunk)}
ChunkMeta(metadata, id, chunk) ==
    DictUnion(metadata, ("id" :> id) @@ ("chunk_size" :> StrLen(chunk)))

\* the lists the inner loop builds for one document
ChunkIds(ts, doc, chunks) == [p \in 1..Len(chunks) |-> ChunkId(ts, doc, p - 1)]

ChunkMetas(ts, doc, chunks, metadata) ==
    [p \in 1..Len(chunks) |-> ChunkMeta(metadata, ChunkId(ts, doc, p - 1), chunks[p])]

\* the texts of each embedding_model.encode call made for one document
EncodeBatchesPerChunk(chunks) == [p \in 1..Len(chunks) |-> << chunks[p] >>]

EncodeBatches(chunks) == << chunks >>

EncodeEvents(doc, chunks, ok) ==
    [q \in 1..Len(EncodeBatches(chunks)) |->
        Event("encode", doc, EncodeBatches(chunks)[q], << >>,
              Encode(EncodeBatches(chunks)[q]), << >>, 0, ok)]

\* where control goes when a statement of the loop body raises: nothing in
\* add_documents catches, so the call ends
AfterRaiseRetry == "adding"

AfterRaise == "idle"

\* where control goes after the loop body ran for documents[doc]
AfterDoc(doc, len) == IF doc + 1 < len THEN "adding" ELSE "idle"

\* add_documents(documents): entry, up to the first loop iteration, for a
\* batch of at least one document (an empty batch runs no iteration)
AddStart ==
    /\ pc = "idle"
    /\ \E len \in 1..(MaxTotalDocs - docsUsed) : \E batch \in BatchesOf(len) :
          /\ documents' = batch
          /\ input' = batch
          /\ docsUsed' = docsUsed + len
    /\ pc' = "adding"
    /\ call' = [op |-> "add_documents", query |-> None, n_results |-> 0]
    /\ processing_timestamp' = now
    /\ startedAt' = now
    /\ doc_index' = 0
    /\ raised' = "none"
    /\ result' = NoResult
    /\ log' = << >>
    /\ store0' = store
    /\ calls' = calls + 1
    /\ UNCHANGED <<store, instance, now, written>>

\* loop body, content falsy: nothing is done for the document
SkipDoc ==
    /\ pc = "adding"
    /\ ~Truthy(CurDoc.content)
    /\ doc_index' = doc_index + 1
    /\ pc' = AfterDoc(doc_index, Len(documents))
    /\ UNCHANGED <<store, instance, now, call, documents, processing_timestamp,
                   raised, result, log, input, startedAt, store0, written,
                   calls, docsUsed>>

\* loop body, embedding_model.encode(chunks) raises
EncodeFails ==
    /\ pc = "adding"
    /\ Truthy(CurDoc.content)
    /\ LET chunks == chunk_text(CurDoc.content, DefaultChunkSize)
       IN log' = log \o SubSeq(EncodeEvents(doc_index, chunks, FALSE), 1, 1)
    /\ raised' = "EmbeddingFailure"
    /\ pc' = AfterRaise
    /\ UNCHANGED <<store, instance, now, call, documents, processing_timestamp,
                   doc_index, result, input, startedAt, store0, written,
                   calls, docsUsed>>

\* loop body, metadata.get('name', '') raises: metadata is no dict
MetadataFails ==
    /\ pc = "adding"
    /\ Truthy(CurDoc.content)
    /\ CurDoc.metadata.kind # "dict"
    /\ LET chunks == chunk_text(CurDoc.content, DefaultChunkSize)
       IN log' = log \o EncodeEvents(doc_index, chunks, TRUE)
    /\ raised' = "MetadataError"
    /\ pc' = AfterRaise
    /\ UNCHANGED <<store, instance, now, call, documents, processing_timestamp,
                   doc_index, result, input, startedAt, store0, written,
                   calls, docsUsed>>

\* loop body, collection.add(...) raises and writes nothing
StoreAddFails ==
    /\ pc = "adding"
    /\ Truthy(CurDoc.content)
    /\ CurDoc.metadata.kind = "dict"
    /\ LET chunks == chunk_text(CurDoc.content, DefaultChunkSize)
           embeddings == Encode(chunks)
           ids == ChunkIds(processing_timestamp, doc_index, chunks)
           metadatas == ChunkMetas(processing_timestamp, doc_index, chunks,
                                   CurDoc.metadata.map)
       IN log' = log \o EncodeEvents(doc_index, chunks, TRUE)
                     \o << Event("add", doc_index, chunks, ids, embeddings,
                                 metadatas, 0, FALSE) >>
    /\ raised' = "StoreFailure"
    /\ pc' = AfterRaise
    /\ UNCHANGED <<store, instance, now, call, documents, processing_timestamp,
                   doc_index, result, input, startedAt, store0, written,
                   calls, docsUsed>>

\* loop body, nothing raises: chunk, embed, assign ids and metadata, write
IngestDoc ==
    /\ pc = "adding"
    /\ Truthy(CurDoc.content)
    /\ CurDoc.metadata.kind = "dict"
    /\ LET chunks == chunk_text(CurDoc.content, DefaultChunkSize)
           embeddings == Encode(chunks)
           ids == ChunkIds(processing_timestamp, doc_index, chunks)
           metadatas == ChunkMetas(processing_timestamp, doc_index, chunks,
                                   CurDoc.metadata.map)
       IN /\ log' = log \o EncodeEvents(doc_index, chunks, TRUE)
                        \o << Event("add", doc_index, chunks, ids, embeddings,
                                    metadatas, 0, TRUE) >>
          /\ store' = StoreAdd(store, instance, ids, embeddings, chunks, metadatas)
          /\ written' = written \cup
                { [call |-> calls, ts |-> processing_timestamp, doc |-> doc_index,
                   chunk |-> p - 1, id |-> ids[p]] : p \in 1..Len(ids) }
    /\ doc_index' = doc_index + 1
    /\ pc' = AfterDoc(doc_index, Len(documents))
    /\ UNCHANGED <<instance, now, call, documents, processing_timestamp,
                   raised, result, input, startedAt, store0, calls, docsUsed>>

\* ------------------------------------------------------------------ search
\* results.get(key, [[]])[0]
Unwrap(results, key) ==
    IF key \in DOMAIN results THEN results[key][1] ELSE << >>

relevant_resultsKeyTypo(results) ==
    [ids |-> Unwrap(results, "ids"),
     documents |-> Unwrap(results, "documents"),
     metadatas |-> Unwrap(results, "metadata"),
     distances |-> Unwrap(results, "distances")]

relevant_results(results) ==
    [ids |-> Unwrap(results, "ids"),
     documents |-> Unwrap(results, "documents"),
     metadatas |-> Unwrap(results, "metadatas"),
     distances |-> Unwrap(results, "distances")]

QueryEvent(query, n, ok) ==
    Event("query", 0, << query >>, << >>, Encode(<< query >>), << >>, n, ok)

\* what every search step does on entry
SearchEnter(query, n) ==
    /\ pc = "idle"
    /\ call' = [op |-> "search", query |-> query, n_results |-> n]
    /\ store0' = store
    /\ UNCHANGED <<store, instance, now, pc, documents, processing_timestamp,
                   doc_index, input, startedAt, written, calls, docsUsed>>

\* search(query, n_results), nothing raises
Search ==
    \E query \in Queries, n \in NResults :
        /\ SearchEnter(query, n)
        /\ n > 0
        /\ LET embedded_query == Encode(<< query >>)[1]
               results == StoreQuery(store, embedded_query, n)
           IN /\ log' = << Event("encode", 0, << query >>, << >>,
                                 Encode(<< query >>), << >>, 0, TRUE),
                           QueryEvent(query, n, TRUE) >>
              /\ result' = relevant_results(results)
        /\ raised' = "none"

\* search, embedding_model.encode([query]) raises
SearchEncodeFails ==
    \E query \in Queries, n \in NResults :
        /\ SearchEnter(query, n)
        /\ log' = << Event("encode", 0, << query >>, << >>,
                           Encode(<< query >>), << >>, 0, FALSE) >>
        /\ result' = NoResult
        /\ raised' = "EmbeddingFailure"

\* search, collection.query(...) raises: n_results is not positive
SearchRejected ==
    \E query \in Queries, n \in NResults :
        /\ SearchEnter(query, n)
        /\ n <= 0
        /\ log' = << Event("encode", 0, << query >>, << >>,
                           Encode(<< query >>), << >>, 0, TRUE),
                     QueryEvent(query, n, FALSE) >>
        /\ result' = NoResult
        /\ raised' = "NResultsError"

\* ---------------------------------------------------------------- __init__
\* VectorDB(): a new instance over VECTOR_DB_DIR
Construct ==
    /\ pc \in {"new", "idle"}
    /\ instance < MaxInstances
    /\ instance' = instance + 1
    /\ store' = GetOrCreateCollection(RemoveTree(store))
    /\ pc' = "idle"
    /\ call' = [op |-> "init", query |-> None, n_results |-> 0]
    /\ documents' = << >>
    /\ input' = << >>
    /\ processing_timestamp' = 0
    /\ startedAt' = 0
    /\ doc_index' = 0
    /\ raised' = "none"
    /\ result' = NoResult
    /\ log' = << >>
    /\ store0' = store
    /\ written' = {}
    /\ UNCHANGED <<now, calls, docsUsed>>

\* the wall clock reaches the next second
Tick ==
    /\ now < StartTime + MaxTicks
    /\ now' = now + 1
    /\ UNCHANGED <<store, instance, pc, call, documents, processing_timestamp,
                   doc_index, raised, result, log, input, startedAt, store0,
                   written, calls, docsUsed>>

\* a row a previous process lifetime left under VECTOR_DB_DIR
StaleRow ==
    [id |-> << "stale" >>, embedding |-> Embed(Text("A", 3)),
     document |-> Text("A", 3),
     metadata |-> ("id" :> << "stale" >>) @@ ("chunk_size" :> 3), inst |-> 0]

Init ==
    /\ store \in { << >>, << StaleRow >> }
    /\ instance = 0
    /\ now = StartTime
    /\ pc = "new"
    /\ call = [op |-> "none", query |-> None, n_results |-> 0]
    /\ documents = << >>
    /\ input = << >>
    /\ processing_timestamp = 0
    /\ startedAt = 0
    /\ doc_index = 0
    /\ raised = "none"
    /\ result = NoResult
    /\ log = << >>
    /\ store0 = << >>
    /\ written = {}
    /\ calls = 0
    /\ docsUsed = 0

Next ==
    \/ Construct
    \/ AddStart
    \/ SkipDoc
    \/ EncodeFails
    \/ MetadataFails
    \/ StoreAddFails
    \/ IngestDoc
    \/ Search
    \/ SearchEncodeFails
    \/ SearchRejected
    \/ Tick

Spec == Init /\ [][Next]_vars

\* ================================================================== claims
InAdd == call.op = "add_documents"
Completed == InAdd /\ pc = "idle" /\ raised = "none"
AddEvents == { q \in 1..Len(log) : log[q].op = "add" }
EncodeEvts == { q \in 1..Len(log) : log[q].op = "encode" }
OkAdds == { q \in AddEvents : log[q].ok }
Elems(seq) == { seq[p] : p \in 1..Len(seq) }
EmptyOrAbsent(content) == content.kind = "none" \/ content.n = 0
NonEmptyDocs == { d \in 0..(Len(input) - 1) : ~EmptyOrAbsent(input[d + 1].content) }

\* the sum of f[x] over the x in S
RECURSIVE SumOver(_, _)
SumOver(S, f) ==
    IF S = {} THEN 0
    ELSE LET x == CHOOSE y \in S : TRUE IN f[x] + SumOver(S \ {x}, f)

\* c_d of the claims: the number of chunks of documents[d]
ChunkCount(d) == Len(chunk_text(input[d + 1].content, DefaultChunkSize))

\* the ids handed to the Store by the current/last add_documents call
HandedIds == UNION { Elems(log[q].ids) : q \in AddEvents }
HandedCount == SumOver(AddEvents, [q \in AddEvents |-> Len(log[q].ids)])

\* C1: the ids one add_documents call hands to the Store are pairwise
\* distinct: there are as many different ids as ids handed over, and once
\* the call has returned that number is the sum of the chunk counts of its
\* non-empty documents.
C1_IdsDistinctWithinCall ==
    InAdd =>
        /\ Cardinality(HandedIds) = HandedCount
        /\ Completed => HandedCount = SumOver(NonEmptyDocs, [d \in NonEmptyDocs |-> ChunkCount(d)])

C1_Witness ==
    /\ Completed
    /\ Cardinality(AddEvents) = 2
    /\ Cardinality(HandedIds) >= 3

\* C2: every id of a call is "{T}_doc_{i}_chunk_{j}" with T the clock value
\* read when the call was entered (whatever the clock shows later), i the
\* document's 0-based position in the input (skipped documents count) and j
\* the chunk's 0-based position among that document's chunks.
C2_IdFormat ==
    InAdd =>
        \A q \in AddEvents :
            /\ log[q].texts = chunk_text(input[log[q].doc + 1].content, DefaultChunkSize)
            /\ \A p \in 1..Len(log[q].ids) :
                  log[q].ids[p] =
                      IntToStr(startedAt) \o <<"_doc_">> \o IntToStr(log[q].doc)
                          \o <<"_chunk_">> \o IntToStr(p - 1)

C2_Witness ==
    /\ InAdd
    /\ now > startedAt
    /\ doc_index = 2
    /\ EmptyOrAbsent(input[1].content)
    /\ \E q \in OkAdds : log[q].doc = 1 /\ Len(log[q].ids) = 2

\* C3: the metadata written with a chunk holds id = the chunk's id and
\* chunk_size = the length of the chunk's text, keeps every other key of the
\* document's metadata with its value (a caller's id or chunk_size is
\* replaced), and the caller's documents are left as they were passed.
C3_MetadataAugmented ==
    /\ InAdd =>
          /\ documents = input
          /\ \A q \in AddEvents : \A p \in 1..Len(log[q].metadatas) :
                LET m == log[q].metadatas[p]
                    orig == input[log[q].doc + 1].metadata.map
                IN /\ DOMAIN m = DOMAIN orig \cup {"id", "chunk_size"}
                   /\ m["id"] = log[q].ids[p]
                   /\ m["chunk_size"] = StrLen(log[q].texts[p])
                   /\ \A k \in DOMAIN orig \ {"id", "chunk_size"} : m[k] = orig[k]
    /\ \A r \in 1..Len(store) :
          store[r].inst = instance =>
              /\ store[r].metadata["id"] = store[r].id
              /\ store[r].metadata["chunk_size"] = StrLen(store[r].document)

C3_Witness ==
    /\ InAdd
    /\ \E q \in OkAdds :
          /\ "id" \in DOMAIN input[log[q].doc + 1].metadata.map
          /\ "name" \in DOMAIN log[q].metadatas[1]
          /\ \E r \in 1..Len(store) : store[r].id = log[q].ids[1]

\* C4: a document whose content is empty or absent causes no Embedder call
\* and no Store write, leaves the Store as it was, raises nothing whatever
\* its metadata is, and the loop goes on to the document after it.
C4_SkipStep ==
    (pc = "adding" /\ EmptyOrAbsent(documents[doc_index + 1].content)) =>
        /\ store' = store
        /\ log' = log
        /\ raised' = "none"
        /\ \/ doc_index' = doc_index /\ pc' = pc
           \/ /\ doc_index' = doc_index + 1
              /\ pc' = IF doc_index + 1 < Len(documents) THEN "adding" ELSE "idle"

C4_NoCallForEmpty ==
    InAdd => \A q \in 1..Len(log) : log[q].doc \in NonEmptyDocs

\* C4 as one formula: no collaborator call is ever made for an empty or
\* absent content, and the step taken on such a document changes nothing
\* but the loop position.
C4_EmptyContentSkipped == []C4_NoCallForEmpty /\ [][C4_SkipStep]_vars

C4_Witness ==
    /\ InAdd
    /\ doc_index = 2
    /\ raised = "none"
    /\ input[1].content.kind = "str"
    /\ EmptyOrAbsent(input[1].content)
    /\ input[1].metadata.kind # "dict"
    /\ \E q \in OkAdds : log[q].doc = 1

\* C5: when the Embedder call or the Store write fails on document k the
\* call ends there with that failure and without a second attempt, nothing
\* of document k or of a later document is written, and what the documents
\* before k wrote is still in the Store.
C5_FailureNoRollback ==
    (InAdd /\ raised \in {"EmbeddingFailure", "StoreFailure"}) =>
        LET k == doc_index IN
        /\ pc = "idle"
        /\ Len(log) >= 1
        /\ log[Len(log)].doc = k
        /\ ~log[Len(log)].ok
        /\ log[Len(log)].op = (IF raised = "StoreFailure" THEN "add" ELSE "encode")
        /\ \A q \in 1..(Len(log) - 1) : log[q].ok
        /\ Cardinality({ q \in EncodeEvts : log[q].doc = k }) = 1
        /\ \A q \in OkAdds : log[q].doc < k
        /\ \A d \in NonEmptyDocs : d < k => \E q \in OkAdds : log[q].doc = d
        /\ Len(store) >= Len(store0)
        /\ SubSeq(store, 1, Len(store0)) = store0
        /\ \A r \in (Len(store0) + 1)..Len(store) :
              \E q \in OkAdds : store[r].id \in Elems(log[q].ids)
        /\ \A q \in OkAdds : \A p \in 1..Len(log[q].ids) :
              \E r \in 1..Len(store) :
                  /\ store[r].id = log[q].ids[p]
                  /\ log[q].ids[p] \notin StoreIds(store0) =>
                        /\ store[r].document = log[q].texts[p]
                        /\ store[r].embedding = log[q].embeddings[p]

C5_Witness ==
    /\ InAdd
    /\ raised = "StoreFailure"
    /\ doc_index = 1
    /\ Len(store) > Len(store0)

\* C6: a call that fails on a malformed input (metadata that is no mapping
\* on a non-empty document, n_results <= 0) has made no Embedder call and no
\* Store call, and has left nothing in the Store.
C6_FailFast ==
    raised \in {"MetadataError", "NResultsError"} =>
        /\ log = << >>
        /\ store = store0

\* C7: for n_results >= 1 against a Store of m chunks, search returns ids,
\* documents, metadatas and distances of length min(n_results, m), position
\* p of each describing one stored chunk, nearest first in non-decreasing
\* distance, no chunk twice, nothing padded, and the Store unchanged.
C7_SearchShape ==
    (call.op = "search" /\ raised = "none") =>
        LET n == call.n_results
            m == Len(store)
            k == IF n < m THEN n ELSE m
            q == Embed(call.query)
        IN /\ n >= 1
           /\ Len(result.ids) = k
           /\ Len(result.documents) = k
           /\ Len(result.metadatas) = k
           /\ Len(result.distances) = k
           /\ \A p \in 1..k : \E r \in 1..m :
                 /\ store[r].id = result.ids[p]
                 /\ store[r].document = result.documents[p]
                 /\ store[r].metadata = result.metadatas[p]
                 /\ Distance(store[r].embedding, q) = result.distances[p]
           /\ \A p1, p2 \in 1..k :
                 /\ p1 < p2 => result.distances[p1] <= result.distances[p2]
                 /\ p1 # p2 => result.ids[p1] # result.ids[p2]
           /\ \A r \in 1..m :
                 store[r].id \notin Elems(result.ids) =>
                     \A p \in 1..k : result.distances[p] <= Distance(store[r].embedding, q)
           /\ store = store0

C7_Witness ==
    /\ call.op = "search"
    /\ raised = "none"
    /\ call.n_results = 5
    /\ Len(store) = 3
    /\ Len(result.ids) = 3
    /\ result.ids[2] = store[3].id

\* C8: the Store holds only chunks written through the most recently
\* constructed instance: construction leaves the collection empty whatever
\* the storage location held, and what a search returns was written by an
\* add_documents call on that instance.
C8_FreshCollection ==
    instance >= 1 =>
        /\ \A r \in 1..Len(store) : store[r].inst = instance
        /\ StoreIds(store) \subseteq { w.id : w \in written }
        /\ call.op = "init" => store = << >>
        /\ (call.op = "search" /\ raised = "none") =>
              Elems(result.ids) \subseteq { w.id : w \in written }

C8_Witness ==
    /\ instance = 2
    /\ Len(store0) > 0
    /\ \A r \in 1..Len(store0) : store0[r].inst = 1
    /\ call.op = "init"
    /\ store = << >>

\* C9: each non-empty document gets one encode call over all its chunks and
\* then one Store.add call, documents in input order; the four lists of the
\* add call have the document's chunk count as length, position p of each
\* is chunk p, and the embeddings are those the encode call returned.
C9_OneEncodeOneAdd ==
    InAdd =>
        /\ \A q \in EncodeEvts :
              /\ log[q].doc \in NonEmptyDocs
              /\ log[q].texts = chunk_text(input[log[q].doc + 1].content, DefaultChunkSize)
              /\ \A q2 \in EncodeEvts : log[q2].doc = log[q].doc => q2 = q
              /\ (log[q].ok /\ q < Len(log)) =>
                    log[q + 1].op = "add" /\ log[q + 1].doc = log[q].doc
        /\ \A q \in AddEvents :
              /\ q > 1
              /\ log[q - 1].op = "encode"
              /\ log[q - 1].ok
              /\ log[q - 1].doc = log[q].doc
              /\ log[q].texts = log[q - 1].texts
              /\ log[q].embeddings = log[q - 1].embeddings
              /\ Len(log[q].ids) = ChunkCount(log[q].doc)
              /\ Len(log[q].embeddings) = ChunkCount(log[q].doc)
              /\ Len(log[q].texts) = ChunkCount(log[q].doc)
              /\ Len(log[q].metadatas) = ChunkCount(log[q].doc)
              /\ \A p \in 1..Len(log[q].ids) :
                    /\ log[q].embeddings[p] = Embed(log[q].texts[p])
                    /\ log[q].metadatas[p]["id"] = log[q].ids[p]
        /\ \A q1, q2 \in 1..Len(log) : q1 < q2 => log[q1].doc <= log[q2].doc
        /\ \A d \in NonEmptyDocs :
              d < doc_index =>
                  /\ Cardinality({ q \in EncodeEvts : log[q].doc = d }) = 1
                  /\ Cardinality({ q \in OkAdds : log[q].doc = d }) = 1

C9_Witness ==
    /\ Completed
    /\ Len(log) = 4
    /\ log[2].op = "add" /\ Len(log[2].ids) = 2
    /\ log[3].op = "encode" /\ log[3].doc = 1

\* C10: on one instance, two chunks written by different add_documents
\* calls have the same id only if the two calls read the same timestamp and
\* the chunks have the same document index and the same chunk index.
C10_CrossCallCollision ==
    \A a, b \in written :
        (a.call # b.call /\ a.id = b.id) =>
            /\ a.ts = b.ts
            /\ a.doc = b.doc
            /\ a.chunk = b.chunk

C10_Witness ==
    \E a, b \in written : a.call # b.call /\ a.id = b.id /\ a.ts = b.ts

====
